---- MODULE Spec2Model ----
(***************************************************************************)
(* DoorPI (src/doorpi.py): the ring/open coordination of                   *)
(* DoorSocketHandler, the TimeoutThread it starts, the request handlers of *)
(* the tornado IOLoop (websocket "open", /slack/<secret>, /api/open/<key>) *)
(* and Application.valid_apikey.                                           *)
(*                                                                         *)
(* Threads of the program, as the model has them:                          *)
(*   - the IOLoop thread runs one request handler at a time (io);          *)
(*   - the gpiozero callback thread runs handle_ring (ring);               *)
(*   - every TimeoutThread is a thread of its own (timeout_thread, dropped);*)
(*   - SIGUSR1 runs load_setup between two steps of the IOLoop thread.     *)
(* Time is counted in ticks of half a second: time.sleep(0.5) is one tick, *)
(* int(time.time()) is now \div Second.                                    *)
(***************************************************************************)
EXTENDS Integers, Sequences, FiniteSets, TLC

\* ------------------------------------------------------------------ bounds
\* The clock stops at MaxTime ticks.
MaxTime == 3
\* At most MaxThreads TimeoutThreads are started.
MaxThreads == 2
\* The clock of the specification SpecTimer stops at MaxClock ticks, and its
\* follow-up rings are taken while the thread's finish is below MaxExpiry seconds.
MaxClock == 24
MaxExpiry == 125
\* Follow-up rings are taken while the thread's finish is below MaxFinish seconds.
MaxFinish == 2

\* --------------------------------------------------------------- constants
\* Ticks per second: the unit is the 0.5 s of time.sleep(0.5).
Second == 2
\* int(Application.config('door.open.timeout')), in seconds: the value doorpi.json
\* gives the setting (the default is "60").
door_open_timeout == 1
\* The default of door.open.timeout, in seconds.
default_timeout == 60
\* time.sleep(60) after the chat relay was notified of a ring, in seconds.
cooldown == 60

\* ------------------------------------------------------------------ values
\* Python's None as a secret: what dict.pop(key, None) gives for an absent key
\* and what JSON null decodes to.
None == [r |-> "None", t |-> -1]
\* The empty path segment of /slack/ .
EmptyStr == [r |-> "", t |-> -1]
\* A value no ring ever generated.
Guess == [r |-> "guess", t |-> -1]
\* The random part of a secret: random.choice over [A-Z0-9], twice. Two rings
\* of the same second then differ by this part alone, or not at all.
RandomChoice == {"A7"}
\* '' in _door.last.open / _door.last.ring.
Never == -1

VARIABLES
    now,             \* time.time(), in ticks
    secret,          \* config['_door.open.secret'], None when the key is absent
    last_open,       \* config['_door.last.open'], Never for ''
    last_ring,       \* config['_door.last.ring'], Never for ''
    timeout_thread,  \* DoorSocketHandler.timeout_thread: the TimeoutThread it refers to, or NoThread
    dropped,         \* the TimeoutThreads handle_open has dropped and that still run
    started,         \* history: how many TimeoutThreads have been started
    door,            \* DoorSocketHandler.door: TRUE while the output is on
    io,              \* the IOLoop thread: the handler it runs and its locals
    ring,            \* the gpiozero callback thread: handle_ring and its locals
    usedkeys,        \* usedkeys.json: key id -> time of use
    req,             \* valid_apikey calls in progress (specification SpecKeys)
    sent,            \* the messages the last step passed to send_update
    response,        \* what the last step answered: the HTTP response of /api/open,
                     \* or the log line of a ring that was dropped
    issued,          \* history: the secret the last first ring generated
    granted,         \* history: the key ids valid_apikey has returned True for
    slack,           \* Application.has_valid_slack_config(): the chat relay is set up
    waiters,         \* DoorSocketHandler.waiters: the open websocket connections
    bcast            \* a send_update call in progress (specification SpecHub)

vars == <<now, secret, last_open, last_ring, timeout_thread, dropped, started, door, io,
          ring, usedkeys, req, sent, response, issued, granted, slack, waiters, bcast>>

\* int(time.time()) / calendar.timegm(time.gmtime())
Seconds(t) == t \div Second

Msg(action, s, ts) == [action |-> action, secret |-> s, timestamp |-> ts]

\* No key id: the request is not one of /api/open.
NoKey == ""
NoResponse == [apikey |-> NoKey, status |-> "none"]
\* logging.info("RING too close to last open"): handle_ring has returned early.
TooClose == [apikey |-> NoKey, status |-> "RING too close to last open"]

IoIdle ==
    [pc |-> "idle", secret |-> None, apikey |-> NoKey, wake |-> 0, asserts |-> 0,
     thread |-> 0, window |-> None]
RingIdle == [pc |-> "idle", timestamp |-> 0, secret |-> None, wake |-> 0]

\* ------------------------------------------------ Application.valid_apikey
\* A stored date string "dd.mm.yyyy" is the tuple <<dd, mm, yyyy>>; any other
\* tuple is a string strptime("%d.%m.%Y") rejects.
Malformed == <<>>

\* apikeys.json as load_setup reads it.
ApiKeys ==
    [k \in {"master1", "restricted1", "limited1", "once1", "once2", "badfrom", "badtill"} |->
        CASE k = "master1"     -> [type |-> "master",     from |-> Malformed,      till |-> Malformed]
          [] k = "restricted1" -> [type |-> "restricted", from |-> Malformed,      till |-> Malformed]
          [] k = "limited1"    -> [type |-> "limited",    from |-> <<1, 2, 2024>>, till |-> <<15, 2, 2024>>]
          [] k = "once1"       -> [type |-> "once",       from |-> <<1, 2, 2024>>, till |-> <<15, 2, 2024>>]
          [] k = "once2"       -> [type |-> "once",       from |-> <<20, 1, 2024>>, till |-> <<10, 3, 2024>>]
          [] k = "badfrom"     -> [type |-> "limited",    from |-> Malformed,      till |-> <<15, 2, 2024>>]
          [] k = "badtill"     -> [type |-> "once",       from |-> <<1, 2, 2024>>, till |-> Malformed]]

\* The key ids a request may carry: the registry's and one it does not hold.
KeyIds == DOMAIN ApiKeys \cup {"unknown"}

\* datetime.datetime.today(): weekday() (Monday is 0), hour, date().
Weekdays == 0..6
Hours == 0..23
Dates == { [year |-> 2024, month |-> 1, day |-> 31], [year |-> 2024, month |-> 2, day |-> 1],
           [year |-> 2024, month |-> 2, day |-> 10], [year |-> 2024, month |-> 2, day |-> 15],
           [year |-> 2024, month |-> 2, day |-> 16], [year |-> 2024, month |-> 3, day |-> 10] }
Today == [weekday : Weekdays, hour : Hours, date : Dates]

\* Whether strptime(s, "%d.%m.%Y") returns (it raises ValueError otherwise).
WellFormed(s) ==
    /\ Len(s) = 3
    /\ s[1] \in 1..31
    /\ s[2] \in 1..12
    /\ s[3] \in 1..9999

\* datetime.datetime.strptime(s, "%d.%m.%Y").date()
strptime(s) == [year |-> s[3], month |-> s[2], day |-> s[1]]

\* DateLE with the dates ordered as their "%d.%m.%Y" text would be.
DateLE_as_text(a, b) ==
    \/ a.day < b.day
    \/ a.day = b.day /\ a.month < b.month
    \/ a.day = b.day /\ a.month = b.month /\ a.year <= b.year

\* date <= date
DateLE(a, b) ==
    \/ a.year < b.year
    \/ a.year = b.year /\ a.month < b.month
    \/ a.year = b.year /\ a.month = b.month /\ a.day <= b.day

\* valid_apikey up to the point where usedkeys.json is opened: "true", "false",
\* "raise" (strptime's ValueError leaves the function) or "once" (the key is a
\* one-time key inside its date range: the file decides). The chained comparison
\* from <= today <= till parses till only when from <= today holds.
valid_apikey_before_file(apikey, today) ==
    IF apikey \notin DOMAIN ApiKeys THEN "false"
    ELSE LET key == ApiKeys[apikey] IN
         IF key.type = "master" THEN "true"
         ELSE IF today.weekday > 4 THEN "false"
         ELSE IF today.hour < 7 \/ today.hour > 18 THEN "false"
         ELSE IF key.type = "restricted" THEN "true"
         ELSE IF ~WellFormed(key.from) THEN "raise"
         ELSE IF ~DateLE(strptime(key.from), today.date) THEN "false"
         ELSE IF ~WellFormed(key.till) THEN "raise"
         ELSE IF ~DateLE(today.date, strptime(key.till)) THEN "false"
         ELSE IF key.type = "limited" THEN "true"
         ELSE IF key.type = "once" THEN "once"
         ELSE "false"

\* The one-time branch once the file has been read into `used`: the result and
\* the dict json.dump writes back (nothing is written when the key was used).
once_result(apikey, used) == IF apikey \in DOMAIN used THEN "false" ELSE "true"

\* once_write without the update of the dict: the use is not recorded.
once_write_nothing(apikey, used, t) == used

once_write(apikey, used, t) ==
    IF apikey \in DOMAIN used THEN used
    ELSE [k \in DOMAIN used \cup {apikey} |-> IF k = apikey THEN t ELSE used[k]]

\* valid_apikey run without interruption against the file content `file`.
valid_apikey(apikey, today, file) ==
    LET r == valid_apikey_before_file(apikey, today) IN
    IF r = "once" THEN once_result(apikey, file) ELSE r

usedkeys_after(apikey, today, file, t) ==
    IF valid_apikey_before_file(apikey, today) = "once" THEN once_write(apikey, file, t) ELSE file

\* usedkeys.json absent: the IOError branch reads it as {}.
EmptyDict == [k \in {} |-> 0]

\* ------------------------------------------------------------ TimeoutThread
\* DoorSocketHandler.timeout_thread = None
NoThread ==
    [id |-> 0, timeout |-> 0, finish |-> 0, wait |-> FALSE, pc |-> "none", timeouts |-> 0,
     extended |-> 0]

\* TimeoutThread.__init__ with finish counted from 0 instead of the current time.
TimeoutThread_from_zero(id, timeout) ==
    [id |-> id, timeout |-> timeout, finish |-> timeout, wait |-> TRUE, pc |-> "loop",
     timeouts |-> 0, extended |-> 0]

\* __init__ followed by start(): the thread is in its while loop. id tells the
\* objects apart; timeouts and extended are history: the "timeout" messages the
\* thread has sent and the extend() calls it has had.
TimeoutThread(id, timeout) ==
    [id |-> id, timeout |-> timeout, finish |-> Seconds(now) + timeout, wait |-> TRUE,
     pc |-> "loop", timeouts |-> 0, extended |-> 0]

\* extend as a restart of the countdown from the current time.
extend_restart(th) ==
    [th EXCEPT !.finish = Seconds(now) + th.timeout, !.extended = @ + 1]

extend(th) == [th EXCEPT !.finish = @ + th.timeout, !.extended = @ + 1]

\* stop that leaves the wait flag as it is.
stop_nothing(th) == th

stop(th) == [th EXCEPT !.wait = FALSE]

\* The while condition of run().
Waiting(th) == th.wait /\ Seconds(now) < th.finish

\* finish - int(time.time()), the "remaining time to open" that run() logs.
Remaining(th) == th.finish - Seconds(now)

\* The threads that have not ended: the one timeout_thread refers to and the
\* ones handle_open has dropped.
Running == {th \in dropped \cup {timeout_thread} : th.pc \in {"loop", "send"}}

\* Thread th goes on as `new`; a dropped thread that has ended is forgotten.
Becomes(th, new) ==
    IF th = timeout_thread
    THEN /\ timeout_thread' = new
         /\ UNCHANGED dropped
    ELSE /\ dropped' = (dropped \ {th}) \cup (IF new.pc = "done" THEN {} ELSE {new})
         /\ UNCHANGED timeout_thread

\* run() ending when the loop is left, without the broadcast.
run_leave_loop_silent(th) ==
    /\ th.pc = "loop"
    /\ ~Waiting(th)
    /\ Becomes(th, [th EXCEPT !.pc = "done"])
    /\ sent' = <<>>
    /\ response' = NoResponse
    /\ UNCHANGED <<now, secret, last_open, last_ring, started, door, io, ring, usedkeys,
                   req, issued, granted, slack, waiters, bcast>>

\* run(): the loop is left (stopped, or the time is up) and `if self.wait` read.
run_leave_loop(th) ==
    /\ th.pc = "loop"
    /\ ~Waiting(th)
    /\ Becomes(th, [th EXCEPT !.pc = IF th.wait THEN "send" ELSE "done"])
    /\ sent' = <<>>
    /\ response' = NoResponse
    /\ UNCHANGED <<now, secret, last_open, last_ring, started, door, io, ring, usedkeys,
                   req, issued, granted,
                   slack, waiters, bcast>>

\* run(): DoorSocketHandler.send_update({"action": "timeout"}).
run_send_timeout(th) ==
    /\ th.pc = "send"
    /\ Becomes(th, [th EXCEPT !.pc = "done", !.timeouts = @ + 1])
    /\ sent' = <<Msg("timeout", None, -1)>>
    /\ response' = NoResponse
    /\ UNCHANGED <<now, secret, last_open, last_ring, started, door, io, ring, usedkeys,
                   req, issued, granted,
                   slack, waiters, bcast>>

\* ------------------------------------------------------------- handle_ring
\* The new secret: two random characters and the Unix time in seconds.
NewSecret(rnd) == [r |-> rnd, t |-> Seconds(now)]

\* The debounce test with the time of the last ring in place of the last open.
TooCloseToLastRing == last_ring # Never /\ now - last_ring < Second

\* timestamp - float(last_open) < 1.0; float('') raises ValueError, which passes.
TooCloseToLastOpen == last_open # Never /\ now - last_open < Second

\* handle_ring from its start to the branch on timeout_thread: the debounce
\* return, last.ring, and on a first ring the secret stored in the config.
handle_ring_begin ==
    /\ \/ ring.pc = "idle"
       \/ ring.pc = "cooldown" /\ now >= ring.wake
    /\ sent' = <<>>
    /\ IF TooCloseToLastOpen
       THEN /\ ring' = RingIdle
            /\ response' = TooClose
            /\ UNCHANGED <<last_ring, secret, issued>>
       ELSE /\ response' = NoResponse
            /\ last_ring' = now
            /\ IF timeout_thread = NoThread
               THEN /\ started < MaxThreads
                    /\ \E rnd \in RandomChoice :
                          /\ secret' = NewSecret(rnd)
                          /\ issued' = NewSecret(rnd)
                          /\ ring' = [pc |-> "start_timer", timestamp |-> now,
                                      secret |-> NewSecret(rnd), wake |-> 0]
               ELSE /\ timeout_thread.finish < MaxFinish
                    /\ ring' = [pc |-> "wait_secret", timestamp |-> now, secret |-> None,
                                wake |-> 0]
                    /\ UNCHANGED <<secret, issued>>
    /\ UNCHANGED <<now, last_open, timeout_thread, dropped, started, door, io, usedkeys,
                   req, granted,
                   slack, waiters, bcast>>

\* handle_ring after its broadcast: with the chat relay set up, SlackHandler.send
\* and time.sleep(60) on the thread that runs handle_ring; else it returns.
AfterBroadcast ==
    IF slack THEN [RingIdle EXCEPT !.pc = "cooldown", !.wake = now + cooldown * Second]
    ELSE RingIdle

\* First ring: the TimeoutThread is created and started, the ring is broadcast.
handle_ring_start_timer ==
    /\ ring.pc = "start_timer"
    /\ timeout_thread' = TimeoutThread(started + 1, door_open_timeout)
    /\ started' = started + 1
    /\ sent' = <<Msg("ring", ring.secret, ring.timestamp)>>
    /\ response' = NoResponse
    /\ ring' = AfterBroadcast
    /\ UNCHANGED <<now, secret, last_open, last_ring, dropped, door, io, usedkeys, req,
                   issued, granted,
                   slack, waiters, bcast>>

\* Follow-up ring: `while True` until '_door.open.secret' is in the config.
handle_ring_wait_secret ==
    /\ ring.pc = "wait_secret"
    /\ secret # None
    /\ ring' = [ring EXCEPT !.pc = "extend", !.secret = secret]
    /\ sent' = <<>>
    /\ response' = NoResponse
    /\ UNCHANGED <<now, secret, last_open, last_ring, timeout_thread, dropped, started,
                   door, io, usedkeys, req, issued, granted,
                   slack, waiters, bcast>>

\* Follow-up ring: timeout_thread.extend() and the broadcast. With timeout_thread
\* None by now, the call raises AttributeError and handle_ring ends there.
handle_ring_extend ==
    /\ ring.pc = "extend"
    /\ IF timeout_thread = NoThread
       THEN /\ sent' = <<>>
            /\ ring' = RingIdle
            /\ UNCHANGED timeout_thread
       ELSE /\ timeout_thread' = extend(timeout_thread)
            /\ sent' = <<Msg("ring", ring.secret, ring.timestamp)>>
            /\ ring' = AfterBroadcast
    /\ response' = NoResponse
    /\ UNCHANGED <<now, secret, last_open, last_ring, dropped, started, door, io, usedkeys,
                   req, issued, granted,
                   slack, waiters, bcast>>

\* ------------------------------------------------ requests of the IOLoop
\* Every secret a ring can generate within the clock's bound.
Secrets == [r : RandomChoice, t : 0..Seconds(MaxTime)]
\* payload['secret'] of a websocket message: any JSON value, null included.
JsonSecrets == Secrets \cup {None, EmptyStr, Guess}
\* The path segment of /slack/(.*): a string, never None.
PathSecrets == Secrets \cup {EmptyStr, Guess}

\* The handler a request starts: what it was given, and (history) the thread
\* timeout_thread referred to and the secret issued when it arrived.
Request(pc, s, k) ==
    [IoIdle EXCEPT !.pc = pc, !.secret = s, !.apikey = k, !.thread = timeout_thread.id,
                   !.window = issued]

\* DoorSocketHandler.on_message, action "open": the stored secret is popped and
\* compared with the presented one; on a match the message is broadcast and
\* handle_open called.
on_message_open(s) ==
    /\ io.pc = "idle"
    /\ secret' = None
    /\ IF s = secret
       THEN /\ sent' = <<Msg("open", None, now)>>
            /\ io' = Request("handle_open", s, NoKey)
       ELSE /\ sent' = <<>>
            /\ io' = IoIdle
    /\ response' = NoResponse
    /\ UNCHANGED <<now, last_open, last_ring, timeout_thread, dropped, started, door, ring,
                   usedkeys, req, issued, granted,
                   slack, waiters, bcast>>

\* SlackHandler.get: the same pop and comparison, the broadcast, the page, and
\* then handle_open.
slack_get(s) ==
    /\ io.pc = "idle"
    /\ secret' = None
    /\ IF s = secret
       THEN /\ sent' = <<Msg("open", None, now)>>
            /\ io' = Request("handle_open", s, NoKey)
       ELSE /\ sent' = <<>>
            /\ io' = IoIdle
    /\ response' = NoResponse
    /\ UNCHANGED <<now, last_open, last_ring, timeout_thread, dropped, started, door, ring,
                   usedkeys, req, issued, granted,
                   slack, waiters, bcast>>

\* handle_open: the return without a prior ring, else stop() and the thread dropped.
handle_open_check ==
    /\ io.pc = "handle_open"
    /\ IF timeout_thread = NoThread
       THEN /\ io' = IoIdle
            /\ UNCHANGED <<timeout_thread, dropped>>
       ELSE /\ dropped' = dropped \cup {th \in {stop(timeout_thread)} : th.pc \in {"loop", "send"}}
            /\ timeout_thread' = NoThread
            /\ io' = [io EXCEPT !.pc = "open_on"]
    /\ sent' = <<>>
    /\ response' = NoResponse
    /\ UNCHANGED <<now, secret, last_open, last_ring, started, door, ring, usedkeys, req,
                   issued, granted,
                   slack, waiters, bcast>>

\* handle_open: last.open recorded and door.on().
handle_open_on ==
    /\ io.pc = "open_on"
    /\ last_open' = now
    /\ door' = TRUE
    /\ io' = [io EXCEPT !.pc = "open_off", !.wake = now + 1, !.asserts = @ + 1]
    /\ sent' = <<>>
    /\ response' = NoResponse
    /\ UNCHANGED <<now, secret, last_ring, timeout_thread, dropped, started, ring,
                   usedkeys, req, issued, granted,
                   slack, waiters, bcast>>

\* handle_open: after time.sleep(0.5), door.off().
handle_open_off ==
    /\ io.pc = "open_off"
    /\ now >= io.wake
    /\ door' = FALSE
    /\ io' = IoIdle
    /\ sent' = <<>>
    /\ response' = NoResponse
    /\ UNCHANGED <<now, secret, last_open, last_ring, timeout_thread, dropped, started,
                   ring, usedkeys, req, issued, granted,
                   slack, waiters, bcast>>

\* The calendar readings the requests of the coordinator's specification draw:
\* a Friday morning inside the keys' date range, the same on a Saturday, in
\* the evening, and a month later.
InRange == [year |-> 2024, month |-> 2, day |-> 10]
TodaySamples ==
    { [weekday |-> 4, hour |-> 7, date |-> InRange],
      [weekday |-> 5, hour |-> 7, date |-> InRange],
      [weekday |-> 4, hour |-> 19, date |-> InRange],
      [weekday |-> 4, hour |-> 7, date |-> [year |-> 2024, month |-> 3, day |-> 10]] }

\* The key ids the requests of the coordinator's specification carry.
ApiRequestKeys == {"master1", "once1", "unknown"}

\* ApiHandler.get: valid_apikey, and for a valid key last.open and the first
\* sleep; 401 for an invalid one; strptime's ValueError ends the request (500).
api_get(apikey, today) ==
    /\ io.pc = "idle"
    /\ usedkeys' = usedkeys_after(apikey, today, usedkeys, now)
    /\ LET valid == valid_apikey(apikey, today, usedkeys) IN
       /\ granted' = IF valid = "true" THEN granted \cup {apikey} ELSE granted
       /\ IF valid = "true"
          THEN /\ last_open' = now
               /\ io' = [Request("api_on", None, apikey) EXCEPT !.wake = now + 1]
               /\ response' = NoResponse
          ELSE /\ io' = IoIdle
               /\ response' = [apikey |-> apikey,
                               status |-> IF valid = "raise" THEN "error" ELSE "Unauthorized"]
               /\ UNCHANGED last_open
    /\ sent' = <<>>
    /\ UNCHANGED <<now, secret, last_ring, timeout_thread, dropped, started, door, ring,
                   req, issued,
                   slack, waiters, bcast>>

\* ApiHandler.get: after the first sleep, door.on().
api_on ==
    /\ io.pc = "api_on"
    /\ now >= io.wake
    /\ door' = TRUE
    /\ io' = [io EXCEPT !.pc = "api_off", !.wake = now + 1, !.asserts = @ + 1]
    /\ sent' = <<>>
    /\ response' = NoResponse
    /\ UNCHANGED <<now, secret, last_open, last_ring, timeout_thread, dropped, started,
                   ring, usedkeys, req, issued, granted,
                   slack, waiters, bcast>>

\* ApiHandler.get: after the second sleep, door.off() and the response.
api_off ==
    /\ io.pc = "api_off"
    /\ now >= io.wake
    /\ door' = FALSE
    /\ io' = IoIdle
    /\ sent' = <<>>
    /\ response' = [apikey |-> io.apikey, status |-> "open"]
    /\ UNCHANGED <<now, secret, last_open, last_ring, timeout_thread, dropped, started,
                   ring, usedkeys, req, issued, granted,
                   slack, waiters, bcast>>

\* SIGUSR1, load_setup: the config is read anew, which empties last.ring and
\* last.open and holds no '_door.open.secret'; apikeys.json is read anew.
load_setup ==
    /\ secret' = None
    /\ last_open' = Never
    /\ last_ring' = Never
    /\ sent' = <<>>
    /\ response' = NoResponse
    /\ UNCHANGED <<now, timeout_thread, dropped, started, door, io, ring, usedkeys, req,
                   issued, granted,
                   slack, waiters, bcast>>

\* Time passes.
Tick ==
    /\ now < MaxTime
    /\ now' = now + 1
    /\ sent' = <<>>
    /\ response' = NoResponse
    /\ UNCHANGED <<secret, last_open, last_ring, timeout_thread, dropped, started, door,
                   io, ring, usedkeys, req, issued, granted,
                   slack, waiters, bcast>>

\* ------------------------------------------------------------ specification
\* No send_update call is looked at.
NoBroadcast ==
    [pc |-> "none", size |-> 0, called |-> {}, written |-> {}, mutated |-> FALSE]

Init ==
    /\ now = 0
    /\ secret = None
    /\ last_open = Never
    /\ last_ring = Never
    /\ timeout_thread = NoThread
    /\ dropped = {}
    /\ started = 0
    /\ door = FALSE
    /\ io = IoIdle
    /\ ring = RingIdle
    /\ usedkeys = EmptyDict
    /\ req = <<>>
    /\ sent = <<>>
    /\ response = NoResponse
    /\ issued = None
    /\ granted = {}
    /\ slack = FALSE
    /\ waiters = {}
    /\ bcast = NoBroadcast

Next ==
    \/ Tick
    \/ load_setup
    \/ handle_ring_begin
    \/ handle_ring_start_timer
    \/ handle_ring_wait_secret
    \/ handle_ring_extend
    \/ \E th \in Running : run_leave_loop(th)
    \/ \E th \in Running : run_send_timeout(th)
    \/ \E s \in JsonSecrets : on_message_open(s)
    \/ \E s \in PathSecrets : slack_get(s)
    \/ handle_open_check
    \/ handle_open_on
    \/ handle_open_off
    \/ \E k \in ApiRequestKeys, today \in TodaySamples : api_get(k, today)
    \/ api_on
    \/ api_off

Spec == Init /\ [][Next]_vars

\* ------------------------------------------- valid_apikey, step by step
\* A call of valid_apikey: its arguments, its position, the dict it has read
\* from usedkeys.json and what it returned ("none" until it has).
Call(apikey, today) ==
    [pc |-> "enter", apikey |-> apikey, today |-> today, used |-> EmptyDict, result |-> "none"]

\* valid_apikey from its start to the open of usedkeys.json.
valid_apikey_enter(c) ==
    /\ req[c].pc = "enter"
    /\ LET r == valid_apikey_before_file(req[c].apikey, req[c].today) IN
       req' = [req EXCEPT ![c].pc = IF r = "once" THEN "read" ELSE "returned",
                          ![c].result = IF r = "once" THEN "none" ELSE r]
    /\ UNCHANGED <<now, secret, last_open, last_ring, timeout_thread, dropped, started, door,
                   io, ring, usedkeys, sent, response, issued, granted,
                   slack, waiters, bcast>>

\* json.load of usedkeys.json ({} when the file cannot be opened).
valid_apikey_read(c) ==
    /\ req[c].pc = "read"
    /\ req' = [req EXCEPT ![c].pc = "check", ![c].used = usedkeys]
    /\ UNCHANGED <<now, secret, last_open, last_ring, timeout_thread, dropped, started, door,
                   io, ring, usedkeys, sent, response, issued, granted,
                   slack, waiters, bcast>>

\* `if apikey in used`, and for an unused key the update of the dict read and
\* json.dump of it over usedkeys.json.
valid_apikey_check(c) ==
    /\ req[c].pc = "check"
    /\ req' = [req EXCEPT ![c].pc = "returned",
                          ![c].result = once_result(req[c].apikey, req[c].used)]
    /\ usedkeys' = IF once_result(req[c].apikey, req[c].used) = "true"
                   THEN once_write(req[c].apikey, req[c].used, now)
                   ELSE usedkeys
    /\ UNCHANGED <<now, secret, last_open, last_ring, timeout_thread, dropped, started, door,
                   io, ring, sent, response, issued, granted,
                   slack, waiters, bcast>>

\* What the rest of the program is while only valid_apikey is looked at.
CoordinatorAtRest ==
    /\ now = 0
    /\ secret = None
    /\ last_open = Never
    /\ last_ring = Never
    /\ timeout_thread = NoThread
    /\ dropped = {}
    /\ started = 0
    /\ door = FALSE
    /\ io = IoIdle
    /\ ring = RingIdle
    /\ sent = <<>>
    /\ response = NoResponse
    /\ issued = None
    /\ granted = {}

\* No websocket is connected and no broadcast is under way.
HubAtRest ==
    /\ waiters = {}
    /\ bcast = NoBroadcast

\* The contents of usedkeys.json a call may find.
UsedKeyFiles ==
    { EmptyDict,
      [k \in {"once1"} |-> 0],
      [k \in {"once2"} |-> 0],
      [k \in {"once1", "once2"} |-> 0] }

\* One call of valid_apikey, for every key id, calendar reading and file.
InitApi ==
    /\ CoordinatorAtRest
    /\ HubAtRest
    /\ slack = FALSE
    /\ usedkeys \in UsedKeyFiles
    /\ \E k \in KeyIds, today \in Today : req = <<Call(k, today)>>

NextApi == valid_apikey_enter(1) \/ valid_apikey_read(1) \/ valid_apikey_check(1)

SpecApi == InitApi /\ [][NextApi]_vars

\* Two calls of valid_apikey whose steps interleave: the function takes no lock
\* and usedkeys.json is shared by whatever runs it.
RaceKeys == {"once1", "once2", "master1", "limited1"}

InitKeys ==
    /\ CoordinatorAtRest
    /\ HubAtRest
    /\ slack = FALSE
    /\ usedkeys = EmptyDict
    /\ \E k1 \in RaceKeys, k2 \in RaceKeys, t1 \in TodaySamples, t2 \in TodaySamples :
          req = <<Call(k1, t1), Call(k2, t2)>>

NextKeys == \E c \in {1, 2} : valid_apikey_enter(c) \/ valid_apikey_read(c) \/ valid_apikey_check(c)

SpecKeys == InitKeys /\ [][NextKeys]_vars

\* ------------------------------- the window with the default timeout of 60
\* handle_ring on a first ring, start to end, with door.open.timeout at its
\* default: last.ring, the secret, the TimeoutThread, the broadcast.
ring_default_first ==
    /\ timeout_thread = NoThread
    /\ last_ring' = now
    /\ \E rnd \in RandomChoice :
          /\ secret' = NewSecret(rnd)
          /\ issued' = NewSecret(rnd)
          /\ sent' = <<Msg("ring", NewSecret(rnd), now)>>
    /\ timeout_thread' = TimeoutThread(started + 1, default_timeout)
    /\ started' = started + 1
    /\ UNCHANGED <<now, last_open, dropped, door, io, ring, usedkeys, req, response,
                   granted, slack, waiters, bcast>>

\* handle_ring on a follow-up ring, start to end: last.ring, the stored secret
\* read, extend(), the broadcast.
ring_default_follow_up ==
    /\ timeout_thread # NoThread
    /\ secret # None
    /\ timeout_thread.finish < MaxExpiry
    /\ last_ring' = now
    /\ timeout_thread' = extend(timeout_thread)
    /\ sent' = <<Msg("ring", secret, now)>>
    /\ UNCHANGED <<now, secret, last_open, dropped, started, door, io, ring, usedkeys,
                   req, response, issued, granted, slack, waiters, bcast>>

\* Time passes, up to MaxClock.
clock ==
    /\ now < MaxClock
    /\ now' = now + 1
    /\ sent' = <<>>
    /\ UNCHANGED <<secret, last_open, last_ring, timeout_thread, dropped, started, door,
                   io, ring, usedkeys, req, response, issued, granted, slack, waiters,
                   bcast>>

InitTimer ==
    /\ CoordinatorAtRest
    /\ HubAtRest
    /\ slack = FALSE
    /\ usedkeys = EmptyDict
    /\ req = <<>>

NextTimer == clock \/ ring_default_first \/ ring_default_follow_up

SpecTimer == InitTimer /\ [][NextTimer]_vars

\* The program while no open request arrives: rings and timer threads alone.
NextExpiry ==
    \/ clock
    \/ handle_ring_begin
    \/ handle_ring_start_timer
    \/ handle_ring_wait_secret
    \/ handle_ring_extend
    \/ \E th \in Running : run_leave_loop(th)
    \/ \E th \in Running : run_send_timeout(th)

SpecExpiry == InitTimer /\ [][NextExpiry]_vars

\* --------------------------------------------- send_update and the waiters
\* The websocket connections that may come and go.
Observers == {"w1", "w2", "w3"}

\* send_update is called by a thread other than the IOLoop's (run()'s "timeout",
\* handle_ring's "ring"): `for waiter in cls.waiters` creates the iterator of
\* the set itself, not of a copy. called is history: the waiters at the call.
send_update_begin ==
    /\ bcast.pc = "none"
    /\ bcast' = [pc |-> "iterating", size |-> Cardinality(waiters), called |-> waiters,
                 written |-> {}, mutated |-> FALSE]
    /\ UNCHANGED <<now, secret, last_open, last_ring, timeout_thread, dropped, started,
                   door, io, ring, usedkeys, req, sent, response, issued, granted, slack,
                   waiters>>

\* One turn of the for loop. The iterator raises RuntimeError ("Set changed
\* size during iteration") when the set's size is not what it was at the start,
\* and the for statement is outside the try. If the set was changed and has its
\* old size again, the iterator goes on over the changed table: it may pass over
\* members or stop early. write_message raising is caught inside the loop, so a
\* turn is the same whether the write fails or not.
send_update_next ==
    /\ bcast.pc = "iterating"
    /\ IF Cardinality(waiters) # bcast.size
       THEN bcast' = [bcast EXCEPT !.pc = "raised"]
       ELSE \/ /\ waiters \ bcast.written = {} \/ bcast.mutated
               /\ bcast' = [bcast EXCEPT !.pc = "returned"]
            \/ \E w \in waiters \ bcast.written :
                  bcast' = [bcast EXCEPT !.written = @ \cup {w}]
    /\ UNCHANGED <<now, secret, last_open, last_ring, timeout_thread, dropped, started,
                   door, io, ring, usedkeys, req, sent, response, issued, granted, slack,
                   waiters>>

\* DoorSocketHandler.open on the IOLoop thread: waiters.add(self).
ws_open(w) ==
    /\ w \notin waiters
    /\ waiters' = waiters \cup {w}
    /\ bcast' = IF bcast.pc = "iterating" THEN [bcast EXCEPT !.mutated = TRUE] ELSE bcast
    /\ UNCHANGED <<now, secret, last_open, last_ring, timeout_thread, dropped, started,
                   door, io, ring, usedkeys, req, sent, response, issued, granted, slack>>

\* DoorSocketHandler.on_close on the IOLoop thread: waiters.remove(self).
on_close(w) ==
    /\ w \in waiters
    /\ waiters' = waiters \ {w}
    /\ bcast' = IF bcast.pc = "iterating" THEN [bcast EXCEPT !.mutated = TRUE] ELSE bcast
    /\ UNCHANGED <<now, secret, last_open, last_ring, timeout_thread, dropped, started,
                   door, io, ring, usedkeys, req, sent, response, issued, granted, slack>>

InitHub ==
    /\ CoordinatorAtRest
    /\ usedkeys = EmptyDict
    /\ req = <<>>
    /\ slack = FALSE
    /\ waiters \in SUBSET Observers
    /\ bcast = NoBroadcast

NextHub ==
    \/ send_update_begin
    \/ send_update_next
    \/ \E w \in Observers : ws_open(w)
    \/ \E w \in Observers : on_close(w)

SpecHub == InitHub /\ [][NextHub]_vars

\* ------------------------------------------------- with the chat relay
\* The program with slack.webhook and slack.baseurl configured. Within the
\* clock's bound the thread that ran the first ring is still in its
\* time.sleep(60), so the follow-up steps of handle_ring never come up here.
InitRelay ==
    /\ CoordinatorAtRest
    /\ HubAtRest
    /\ slack = TRUE
    /\ usedkeys = EmptyDict
    /\ req = <<>>

NextRelay ==
    \/ Tick
    \/ load_setup
    \/ handle_ring_begin
    \/ handle_ring_start_timer
    \/ \E th \in Running : run_leave_loop(th)
    \/ \E th \in Running : run_send_timeout(th)
    \/ \E s \in JsonSecrets : on_message_open(s)
    \/ \E s \in PathSecrets : slack_get(s)
    \/ handle_open_check
    \/ handle_open_on
    \/ handle_open_off

SpecRelay == InitRelay /\ [][NextRelay]_vars

\* ------------------------------------------- with failing actuator and relay
\* What a door.on() or door.off() that fails raises: the AttributeError the
\* code catches, or any other exception (gpiozero's own errors, the pin
\* library's RuntimeError), which no except clause of the callers names.
Raised == {"AttributeError", "other"}

\* logging.fatal in the except clause; the exception that leaves the handler.
Fatal == [apikey |-> NoKey, status |-> "fatal"]
Escaped == [apikey |-> NoKey, status |-> "error"]

\* handle_open: last.open recorded, door.on() raises. An AttributeError is
\* logged and handle_open goes on to the notification, the sleep and
\* door.off(); any other exception leaves handle_open.
handle_open_on_raises(e) ==
    /\ io.pc = "open_on"
    /\ last_open' = now
    /\ IF e = "AttributeError"
       THEN /\ io' = [io EXCEPT !.pc = "open_off", !.wake = now + 1]
            /\ response' = Fatal
       ELSE /\ io' = IoIdle
            /\ response' = Escaped
    /\ sent' = <<>>
    /\ UNCHANGED <<now, secret, last_ring, timeout_thread, dropped, started, door, ring,
                   usedkeys, req, issued, granted,
                   slack, waiters, bcast>>

\* handle_open: door.on(), then SlackHandler.send raises something that is not
\* an IOError (httplib.BadStatusLine from urlopen, ValueError for a webhook
\* that a reload has taken out of the config): the exception leaves send and
\* handle_open before the sleep and door.off().
handle_open_send_raises ==
    /\ io.pc = "open_on"
    /\ slack
    /\ last_open' = now
    /\ door' = TRUE
    /\ io' = IoIdle
    /\ response' = Escaped
    /\ sent' = <<>>
    /\ UNCHANGED <<now, secret, last_ring, timeout_thread, dropped, started, ring,
                   usedkeys, req, issued, granted,
                   slack, waiters, bcast>>

\* handle_open: after time.sleep(0.5), door.off() raises; the signal stays as
\* it was. An AttributeError is logged, any other exception leaves handle_open.
handle_open_off_raises(e) ==
    /\ io.pc = "open_off"
    /\ now >= io.wake
    /\ io' = IoIdle
    /\ response' = IF e = "AttributeError" THEN Fatal ELSE Escaped
    /\ sent' = <<>>
    /\ UNCHANGED <<now, secret, last_open, last_ring, timeout_thread, dropped, started,
                   door, ring, usedkeys, req, issued, granted,
                   slack, waiters, bcast>>

\* ApiHandler.get: door.on() raises inside the try that holds on, sleep and
\* off: an AttributeError is logged and the response written, any other
\* exception ends the request (500).
api_on_raises(e) ==
    /\ io.pc = "api_on"
    /\ now >= io.wake
    /\ io' = IoIdle
    /\ response' = [apikey |-> io.apikey,
                    status |-> IF e = "AttributeError" THEN "open" ELSE "error"]
    /\ sent' = <<>>
    /\ UNCHANGED <<now, secret, last_open, last_ring, timeout_thread, dropped, started,
                   door, ring, usedkeys, req, issued, granted,
                   slack, waiters, bcast>>

\* ApiHandler.get: door.off() raises; the signal stays on.
api_off_raises(e) ==
    /\ io.pc = "api_off"
    /\ now >= io.wake
    /\ io' = IoIdle
    /\ response' = [apikey |-> io.apikey,
                    status |-> IF e = "AttributeError" THEN "open" ELSE "error"]
    /\ sent' = <<>>
    /\ UNCHANGED <<now, secret, last_open, last_ring, timeout_thread, dropped, started,
                   door, ring, usedkeys, req, issued, granted,
                   slack, waiters, bcast>>

\* The coordinator at rest, with or without the chat relay set up.
InitFaults ==
    /\ CoordinatorAtRest
    /\ HubAtRest
    /\ slack \in BOOLEAN
    /\ usedkeys = EmptyDict
    /\ req = <<>>

NextFaults ==
    \/ Next
    \/ \E e \in Raised : handle_open_on_raises(e)
    \/ handle_open_send_raises
    \/ \E e \in Raised : handle_open_off_raises(e)
    \/ \E e \in Raised : api_on_raises(e)
    \/ \E e \in Raised : api_off_raises(e)

SpecFaults == InitFaults /\ [][NextFaults]_vars

\* ------------------------------------------------------------------ claims
\* The coordinator's states as the specification names them.
Armed == timeout_thread # NoThread
Idle == timeout_thread = NoThread

\* An open request that presents s: the websocket message or the chat-relay link.
OpenRequest(s) == on_message_open(s) \/ (s \in PathSecrets /\ slack_get(s))

OpenBroadcast(msgs) == \E i \in 1..Len(msgs) : msgs[i].action = "open"

\* C1: while Armed, an open request presenting a secret other than the window's
\* leaves the window unchanged: the stored secret keeps its value, the timer
\* runs on, no actuator pulse and no "open" broadcast, and the request ends.
C1_WrongSecretLeavesWindow ==
    [][\A s \in JsonSecrets :
          (OpenRequest(s) /\ Armed /\ secret # None /\ s # secret)
             => /\ secret' = secret
                /\ timeout_thread' = timeout_thread
                /\ door' = door
                /\ ~OpenBroadcast(sent')
                /\ io'.pc = "idle"]_vars

\* C2: only the secret issued for the window opens the door: an open request
\* causes the "open" broadcast only if it presents the secret the ring
\* generated, and the actuator is pulsed for a secret-bearing request only if
\* that request presented the secret of the window it arrived in.
C2_OnlyIssuedSecretOpens ==
    [][/\ \A s \in JsonSecrets :
             (OpenRequest(s) /\ OpenBroadcast(sent')) => (s \in Secrets /\ s = issued)
       /\ handle_open_on =>
             (io.thread # 0 /\ io.secret \in Secrets /\ io.secret = io.window)]_vars

\* The timer of the current window has run out and announced it.
Expired == Armed /\ timeout_thread.wait /\ timeout_thread.pc = "done"

\* C3: when the timer expires the coordinator returns to Idle and the stored
\* secret is cleared; an open request presenting the old secret is then
\* rejected, and the next ring starts a fresh window.
C3_ExpiryClosesWindow ==
    [][/\ (timeout_thread.pc = "send" /\ run_send_timeout(timeout_thread))
             => (timeout_thread' = NoThread /\ secret' = None)
       /\ \A s \in Secrets :
             (OpenRequest(s) /\ Expired /\ s = issued)
                => (~OpenBroadcast(sent') /\ io'.pc = "idle")
       /\ (handle_ring_begin /\ Expired /\ ~TooCloseToLastOpen)
             => ring'.pc = "start_timer"]_vars

\* C4: an open request presenting the stored secret while Armed removes the
\* secret and goes on to handle_open, which leaves the coordinator Idle with
\* the timer stopped and dropped, records the time of the open and pulses the
\* actuator once (one assert, one deassert); with the secret removed, the same
\* secret presented again is rejected without a pulse, and only a ring that
\* opens a new window stores a secret again.
C4_CorrectSecretOpensOnce ==
    [][/\ (Armed /\ secret # None /\ io.pc = "idle" /\ OpenRequest(secret))
             => /\ secret' = None
                /\ OpenBroadcast(sent')
                /\ io'.pc = "handle_open"
                /\ io'.asserts = 0
       /\ (Armed /\ io.pc = "handle_open" /\ handle_open_check)
             => /\ timeout_thread' = NoThread
                /\ \A th \in dropped' : ~th.wait
                /\ io'.pc = "open_on"
       /\ (io.pc = "open_on" /\ handle_open_on)
             => (last_open' = now /\ ~door /\ door' /\ io'.asserts = 1)
       /\ (io.pc = "open_off" /\ handle_open_off)
             => (door /\ ~door' /\ io.asserts = 1 /\ io'.pc = "idle")
       /\ \A s \in Secrets :
             (secret = None /\ io.pc = "idle" /\ OpenRequest(s))
                => (~OpenBroadcast(sent') /\ io'.pc = "idle" /\ door' = door)
       /\ (secret = None /\ secret' # None)
             => (handle_ring_begin /\ Idle /\ secret' = issued')]_vars

\* The pulse of an accepted open is under way: the request presented the
\* secret of the window it arrived in, the window is closed, the actuator is
\* asserted for the first time.
C4_PulseOfAcceptedOpen ==
    /\ io.pc = "open_off"
    /\ io.thread # 0
    /\ io.secret \in Secrets
    /\ io.secret = io.window
    /\ Idle
    /\ secret = None
    /\ door
    /\ io.asserts = 1

\* C5: an open request received while Idle (no ring in progress) changes
\* nothing: no "open" broadcast, no pulse, the stored secret and the time of
\* the last open are left as they were.
C5_IdleOpenChangesNothing ==
    [][/\ \A s \in JsonSecrets :
             (OpenRequest(s) /\ Idle /\ ring.pc = "idle")
                => /\ ~OpenBroadcast(sent')
                   /\ UNCHANGED <<secret, last_open, door, timeout_thread>>
       /\ (handle_open_check /\ Idle)
             => /\ io'.pc = "idle"
                /\ UNCHANGED <<secret, last_open, door, timeout_thread>>]_vars

\* C6: an API-key open closes the window like a secret open does: once the
\* actuator has been asserted for a request authorized while Armed, the timer
\* of that window is no longer the current one and its secret is no longer
\* stored.
C6_ApiOpenClosesWindow ==
    (io.pc = "api_off" /\ io.thread # 0)
       => (timeout_thread.id # io.thread /\ (secret = None \/ secret # io.window))

\* The one-time keys of the registry.
OnceKeys == {k \in DOMAIN ApiKeys : ApiKeys[k].type = "once"}

\* C7: a one-time key that has been authorized once is refused by every later
\* request, whatever the calendar reading; it is recorded in usedkeys.json and
\* the set of recorded keys only grows.
C7_OnceKeyOnlyOnce ==
    [][/\ \A k \in OnceKeys, today \in TodaySamples :
             (k \in granted /\ io.pc = "idle" /\ now' = now
                /\ (io'.apikey = k \/ response'.apikey = k) /\ api_get(k, today))
                => /\ valid_apikey(k, today, usedkeys) = "false"
                   /\ response' = [apikey |-> k, status |-> "Unauthorized"]
                   /\ io'.pc = "idle"
                   /\ door' = door
       /\ \A k \in OnceKeys : k \in granted' => k \in DOMAIN usedkeys'
       /\ DOMAIN usedkeys \subseteq DOMAIN usedkeys']_vars

\* A one-time key that was authorized at an earlier time has just been refused.
C7_UsedKeyRefused ==
    \E k \in OnceKeys :
       /\ k \in granted
       /\ k \in DOMAIN usedkeys
       /\ usedkeys[k] < now
       /\ response = [apikey |-> k, status |-> "Unauthorized"]

DayNumber(d) == d.year * 10000 + d.month * 100 + d.day
DayNumberOf(s) == s[3] * 10000 + s[2] * 100 + s[1]
BusinessHours(today) == today.weekday \in 0..4 /\ today.hour \in 7..18
ReferenceDecision(apikey, today, consumed) ==
    IF apikey \notin DOMAIN ApiKeys THEN FALSE
    ELSE LET key == ApiKeys[apikey]
             inRange == /\ DayNumberOf(key.from) <= DayNumber(today.date)
                        /\ DayNumber(today.date) <= DayNumberOf(key.till)
         IN  CASE key.type = "master"     -> TRUE
               [] key.type = "restricted" -> BusinessHours(today)
               [] key.type = "limited"    -> BusinessHours(today) /\ inRange
               [] key.type = "once"       -> BusinessHours(today) /\ inRange /\ ~consumed
               [] OTHER                   -> FALSE

\* The keys whose stored dates parse (the reference decision is about these).
DatesParse(apikey) ==
    (apikey \in DOMAIN ApiKeys /\ ApiKeys[apikey].type \in {"limited", "once"})
       => (WellFormed(ApiKeys[apikey].from) /\ WellFormed(ApiKeys[apikey].till))

\* C9: for every key id, kind, weekday, hour and date, what valid_apikey returns
\* is the reference decision (a one-time key counts as consumed when
\* usedkeys.json holds it at the time of the call).
C9_ReferenceDecision ==
    [][\A c \in DOMAIN req :
          (req[c].pc # "returned" /\ req'[c].pc = "returned" /\ DatesParse(req[c].apikey))
             => (req'[c].result = "true")
                   = ReferenceDecision(req[c].apikey, req[c].today,
                                       req[c].apikey \in DOMAIN usedkeys)]_vars

\* A one-time key has been authorized on the last day of its range, in the
\* last hour of the gate, and is recorded.
C9_OnceKeyAuthorized ==
    /\ Len(req) = 1
    /\ req[1].pc = "returned"
    /\ req[1].result = "true"
    /\ req[1].apikey = "once2"
    /\ req[1].today = [weekday |-> 4, hour |-> 18,
                       date |-> [year |-> 2024, month |-> 3, day |-> 10]]
    /\ "once2" \in DOMAIN usedkeys

C11_SecondRingExpiresAtSeventy ==
    [][/\ ring_default_first => timeout_thread'.finish = Seconds(now) + 60
       /\ (/\ timeout_thread.finish = issued.t + 60
           /\ Seconds(now) = issued.t + 10
           /\ ring_default_follow_up)
             => (secret' = secret /\ timeout_thread'.finish = issued.t + 70)]_vars

\* C11 amended: the second ring at T0+10 keeps the secret and sets the expiry to
\* T0+120, the expiry of the first ring plus the full timeout.
C11_SecondRingAddsTimeout ==
    [][/\ ring_default_first => timeout_thread'.finish = Seconds(now) + 60
       /\ (/\ timeout_thread.finish = issued.t + 60
           /\ Seconds(now) = issued.t + 10
           /\ ring_default_follow_up)
             => (secret' = secret /\ timeout_thread'.finish = issued.t + 120)]_vars

\* The window of a ring at T0 > 0 has had its second ring at T0+10.
C11_RungAgainAfterTen ==
    /\ Armed
    /\ timeout_thread.timeout = 60
    /\ issued.t > 0
    /\ secret = issued
    /\ Seconds(last_ring) = issued.t + 10
    /\ timeout_thread.finish = issued.t + 120

\* C12: a ring handled less than 1 second after the last recorded open is
\* ignored entirely: the time of the last ring, the secret, the timer and the
\* state stay as they were and nothing is broadcast; so for every such ring.
C12_DebouncedRingIgnored ==
    [][(last_open # Never /\ now - last_open < Second /\ handle_ring_begin)
          => /\ UNCHANGED <<last_ring, last_open, secret, issued, timeout_thread, dropped,
                            started, door>>
             /\ sent' = <<>>
             /\ ring'.pc = "idle"]_vars

\* A ring has just been dropped, half a second after the last recorded open.
C12_RingDropped ==
    /\ response = TooClose
    /\ last_open # Never
    /\ now - last_open = 1
    /\ ring.pc = "idle"
    /\ Idle
    /\ secret = None
    /\ last_ring < last_open

\* C13: a window that ends by natural expiry (its thread never stopped) has had
\* exactly one "timeout" broadcast, whatever rings extended it before; no
\* thread broadcasts before its time is up, and none more than once.
C13_OneTimeoutPerExpiry ==
    \A th \in dropped \cup {timeout_thread} :
       /\ th.timeouts <= 1
       /\ th.pc \in {"loop", "send"} => th.timeouts = 0
       /\ (th.pc = "done" /\ th.wait) => th.timeouts = 1
       /\ th.timeouts = 1 => Seconds(now) >= issued.t + door_open_timeout

\* A window that a follow-up ring extended has expired and sent its one
\* "timeout".
C13_ExtendedWindowExpired ==
    /\ timeout_thread.pc = "done"
    /\ timeout_thread.wait
    /\ timeout_thread.timeouts = 1
    /\ timeout_thread.extended = 1
    /\ timeout_thread.finish = issued.t + 2 * door_open_timeout
    /\ sent = <<Msg("timeout", None, -1)>>
    /\ Seconds(now) = timeout_thread.finish

\* C14: stop() is race-safe against the expiry: once an open has been accepted
\* and has stopped and dropped the timer, that timer sends no "timeout"; and
\* stop() on a thread that is stopped or has ended changes nothing but the flag.
C14_NoTimeoutAfterStop ==
    [][/\ \A th \in dropped : ~run_send_timeout(th)
       /\ \A th \in dropped : stop(th) = th]_vars

\* The steps of a ring, the steps of a secret-bearing open, and being in the
\* middle of either.
RingStep ==
    \/ handle_ring_begin
    \/ handle_ring_start_timer
    \/ handle_ring_wait_secret
    \/ handle_ring_extend
OpenStep ==
    \/ \E s \in JsonSecrets : OpenRequest(s)
    \/ handle_open_check
    \/ handle_open_on
    \/ handle_open_off
InRing == ring.pc \in {"start_timer", "wait_secret", "extend"}
InOpen == io.pc \in {"handle_open", "open_on", "open_off"}

\* No transition is in progress: no ring, no request, no timer about to send.
Quiescent ==
    /\ ring.pc \in {"idle", "cooldown"}
    /\ io.pc = "idle"
    /\ \A th \in Running : th.pc = "loop"

\* Idle with no stored secret and no running timer, or Armed with one stored
\* secret and exactly one running timer.
IdleOrArmed ==
    \/ Idle /\ secret = None /\ Running = {}
    \/ Armed /\ secret # None /\ Running = {timeout_thread}

\* C15: ring, open and expiry transitions exclude one another: no step of an
\* open is taken in the middle of a ring and no step of a ring in the middle of
\* an open, and whenever no transition is in progress the coordinator is Idle
\* with nothing stored or Armed with one secret and one running timer.
C15_TransitionsExclusive ==
    [][/\ OpenStep => ~InRing
       /\ RingStep => ~InOpen
       /\ Quiescent' => IdleOrArmed']_vars

\* C16: the "open" broadcast is sent only after the open has committed: at the
\* moment it is sent the window is cleared, the coordinator is Idle and the
\* actuator is asserted; so it is never sent for a request that is rejected.
C16_OpenBroadcastAfterCommit ==
    [][OpenBroadcast(sent') => (Idle' /\ secret' = None /\ door')]_vars

\* C17: no ring handling blocks: a follow-up ring that waits for the stored
\* secret finds it (nothing but a ring stores a secret, so a ring that waits
\* without one waits for ever).
C17_FollowUpRingFindsSecret ==
    ring.pc = "wait_secret" => secret # None

\* C18: for a date-limited or one-time key whose stored from or till date does
\* not parse, valid_apikey called on a weekday inside the gate returns False as
\* a normal result.
C18_MalformedDatesFailClosed ==
    \A c \in DOMAIN req :
       (/\ req[c].pc = "returned"
        /\ req[c].apikey \in DOMAIN ApiKeys
        /\ ~DatesParse(req[c].apikey)
        /\ BusinessHours(req[c].today))
          => req[c].result = "false"

\* C19: send_update never raises to its caller, and when it returns it has
\* written the message to every waiter that was registered when it was called
\* and still is, also while connections open and close.
C19_BroadcastReachesAll ==
    /\ bcast.pc # "raised"
    /\ bcast.pc = "returned" => (bcast.called \cap waiters) \subseteq bcast.written

\* C20: the cooldown after a notified ring runs detached: no ring handling is
\* held for it, so the next ring can be handled at once; and an open with the
\* stored secret that arrives during the cooldown is accepted.
C20_CooldownDetached ==
    [][/\ ring'.pc # "cooldown"
       /\ (ring.pc = "cooldown" /\ Armed /\ secret # None /\ OpenRequest(secret))
             => io'.pc = "handle_open"]_vars

\* An actuator call of handle_open raises.
ActuatorFails == \E e \in Raised : handle_open_on_raises(e) \/ handle_open_off_raises(e)

\* The open transition of the request in hand is complete: the timer of the
\* window it was accepted for is stopped and no longer the current one, and
\* the secret it presented is stored no more, unless a later ring has armed a
\* new window.
OpenCommitted ==
    /\ timeout_thread = NoThread \/ timeout_thread.id > io.thread
    /\ \A th \in dropped \cup {timeout_thread} : th.id = io.thread => ~th.wait
    /\ io.secret # None =>
          \/ secret = None
          \/ ring.pc = "start_timer"
          \/ timeout_thread.id > io.thread

\* C21: when door.on() or door.off() raises during an accepted open, no
\* exception leaves handle_open, and the open transition is complete all the
\* same: the timer stopped, the window cleared, the state not left Armed.
C21_ActuatorFailureContained ==
    [][ActuatorFails => (response'.status # "error" /\ OpenCommitted)]_vars

\* C22: the actuator signal is on only inside an open operation that still
\* has its door.off() ahead: when the operation has ended, by its return or
\* by an exception of the notification between on and off, the signal is off.
C22_AssertedOnlyDuringOpen ==
    door => io.pc \in {"open_off", "api_off"}

====
